---- MODULE Spec2Model ----
(***************************************************************************)
(* GeoCards (Geoguessr Trainer): the question engine (dataset filter,      *)
(* question sampler, answer evaluator, name normaliser) and the session    *)
(* state machine of the GeoguessrFlashcards component, in the revisions    *)
(* the repository holds:                                                   *)
(*   "js"   src/src/GeoguessrFlashcards.js  (score and answered only)      *)
(*   "p1"   src/unnamed/part_001            (streak, revealed clues)       *)
(*   "p0"   src/unnamed/part_000            (region and clue-type filters) *)
(*   "ts"   src/unnamed/part_002:1-576      (src/src/lib/questions.ts)     *)
(*   "nr"   src/unnamed/part_002:578-912    (normaliser, used-image ledger)*)
(***************************************************************************)
EXTENDS Integers, Sequences, FiniteSets, TLC

(***************************************************************************)
(* Strings.  A JavaScript string is held as an atomic value; Chars gives   *)
(* the characters of the strings the model uses, for the functions that    *)
(* work on characters (toLowerCase, normalizeCountryName).  Null stands    *)
(* for null and undefined, which the code only tests for truthiness.       *)
(***************************************************************************)
Null == "<null>"

Chars ==
  (Null :> <<>>) @@ ("" :> <<>>) @@
  ("France" :> <<"F","r","a","n","c","e">>) @@
  ("Russia" :> <<"R","u","s","s","i","a">>) @@
  ("Russian Federation" :>
     <<"R","u","s","s","i","a","n"," ","F","e","d","e","r","a","t","i","o","n">>) @@
  ("Europe" :> <<"E","u","r","o","p","e">>) @@
  ("Asia" :> <<"A","s","i","a">>) @@
  ("pole" :> <<"p","o","l","e">>) @@
  ("Pole" :> <<"P","o","l","e">>) @@
  ("POLE" :> <<"P","O","L","E">>) @@
  ("sign" :> <<"s","i","g","n">>) @@
  ("road" :> <<"r","o","a","d">>)

UpperLetters ==
  <<"A","B","C","D","E","F","G","H","I","J","K","L","M",
    "N","O","P","Q","R","S","T","U","V","W","X","Y","Z">>
LowerLetters ==
  <<"a","b","c","d","e","f","g","h","i","j","k","l","m",
    "n","o","p","q","r","s","t","u","v","w","x","y","z">>

\* String.prototype.toLowerCase, one character.
LowerChar(c) ==
  IF \E i \in 1..26 : UpperLetters[i] = c
  THEN LowerLetters[CHOOSE i \in 1..26 : UpperLetters[i] = c]
  ELSE c

\* String.prototype.toLowerCase on the characters of a string.
toLowerCase(cs) == [i \in 1..Len(cs) |-> LowerChar(cs[i])]

IsSpaceChar(c) == c \in {" ", "\t", "\n"}

\* String.prototype.trim: leading and trailing white space removed.
RECURSIVE TrimLeft(_)
TrimLeft(cs) ==
  IF cs # <<>> /\ IsSpaceChar(Head(cs)) THEN TrimLeft(Tail(cs)) ELSE cs
RECURSIVE TrimRight(_)
TrimRight(cs) ==
  IF cs # <<>> /\ IsSpaceChar(cs[Len(cs)])
  THEN TrimRight(SubSeq(cs, 1, Len(cs) - 1)) ELSE cs
trim(cs) == TrimRight(TrimLeft(cs))

\* s.normalize("NFD").replace(/[\u0300-\u036f]/g, ""): an accented letter
\* decomposes into its base letter and combining marks, which are dropped.
\* A character outside ASCII is written as a token ("o-circumflex").
BaseLetter(c) ==
  CASE c = "o-circumflex" -> "o"
    [] OTHER -> c
stripDiacritics(cs) == [i \in 1..Len(cs) |-> BaseLetter(cs[i])]
\* .replace(/\s+/g, " "): every run of white space becomes one space.
RECURSIVE CollapseSpaces(_)
CollapseSpaces(cs) ==
  IF cs = <<>> THEN <<>>
  ELSE IF IsSpaceChar(Head(cs))
       THEN <<" ">> \o CollapseSpaces(TrimLeft(cs))
       ELSE <<Head(cs)>> \o CollapseSpaces(Tail(cs))

\* The characters /[^a-z'\s-]/g leaves in place.
IsKeptChar(c) ==
  \/ \E i \in 1..26 : LowerLetters[i] = c
  \/ c = "'"
  \/ IsSpaceChar(c)
  \/ c = "-"

\* .replace(/[^a-z'\s-]/g, "")
StripOtherChars(cs) == SelectSeq(cs, IsKeptChar)

\* The static alias table (alias -> canonical form).
ALIASES == <<
  [alias |->
     <<"u","n","i","t","e","d"," ","s","t","a","t","e","s"," ","o","f"," ","a","m","e","r","i","c","a">>,
   canonical |->
     <<"u","n","i","t","e","d"," ","s","t","a","t","e","s">>],
  [alias |->
     <<"u","s","a">>,
   canonical |->
     <<"u","n","i","t","e","d"," ","s","t","a","t","e","s">>],
  [alias |->
     <<"u","s">>,
   canonical |->
     <<"u","n","i","t","e","d"," ","s","t","a","t","e","s">>],
  [alias |->
     <<"r","u","s","s","i","a","n"," ","f","e","d","e","r","a","t","i","o","n">>,
   canonical |->
     <<"r","u","s","s","i","a">>],
  [alias |->
     <<"r","e","p","u","b","l","i","c"," ","o","f"," ","k","o","r","e","a">>,
   canonical |->
     <<"s","o","u","t","h"," ","k","o","r","e","a">>],
  [alias |->
     <<"k","o","r","e","a",","," ","r","e","p","u","b","l","i","c"," ","o","f">>,
   canonical |->
     <<"s","o","u","t","h"," ","k","o","r","e","a">>],
  [alias |->
     <<"k","o","r","e","a"," ","(","r","e","p","u","b","l","i","c"," ","o","f",")">>,
   canonical |->
     <<"s","o","u","t","h"," ","k","o","r","e","a">>],
  [alias |->
     <<"k","o","r","e","a",","," ","d","e","m","o","c","r","a","t","i","c"," ","p","e","o","p","l","e","'","s"," ","r","e","p","u","b","l","i","c"," ","o","f">>,
   canonical |->
     <<"n","o","r","t","h"," ","k","o","r","e","a">>],
  [alias |->
     <<"d","e","m","o","c","r","a","t","i","c"," ","p","e","o","p","l","e","'","s"," ","r","e","p","u","b","l","i","c"," ","o","f"," ","k","o","r","e","a">>,
   canonical |->
     <<"n","o","r","t","h"," ","k","o","r","e","a">>],
  [alias |->
     <<"s","y","r","i","a","n"," ","a","r","a","b"," ","r","e","p","u","b","l","i","c">>,
   canonical |->
     <<"s","y","r","i","a">>],
  [alias |->
     <<"c","z","e","c","h"," ","r","e","p","u","b","l","i","c">>,
   canonical |->
     <<"c","z","e","c","h","i","a">>],
  [alias |->
     <<"s","w","a","z","i","l","a","n","d">>,
   canonical |->
     <<"e","s","w","a","t","i","n","i">>],
  [alias |->
     <<"c","a","b","o"," ","v","e","r","d","e">>,
   canonical |->
     <<"c","a","p","e"," ","v","e","r","d","e">>],
  [alias |->
     <<"m","y","a","n","m","a","r">>,
   canonical |->
     <<"b","u","r","m","a">>],
  [alias |->
     <<"i","v","o","r","y"," ","c","o","a","s","t">>,
   canonical |->
     <<"c","o","t","e"," ","d","'","i","v","o","i","r","e">>],
  [alias |->
     <<"c","o-circumflex","t","e"," ","d","right-quote","i","v","o","i","r","e">>,
   canonical |->
     <<"c","o","t","e"," ","d","'","i","v","o","i","r","e">>],
  [alias |->
     <<"l","a","o"," ","p","e","o","p","l","e","'","s"," ","d","e","m","o","c","r","a","t","i","c"," ","r","e","p","u","b","l","i","c">>,
   canonical |->
     <<"l","a","o","s">>],
  [alias |->
     <<"p","l","u","r","i","n","a","t","i","o","n","a","l"," ","s","t","a","t","e"," ","o","f"," ","b","o","l","i","v","i","a">>,
   canonical |->
     <<"b","o","l","i","v","i","a">>],
  [alias |->
     <<"i","s","l","a","m","i","c"," ","r","e","p","u","b","l","i","c"," ","o","f"," ","i","r","a","n">>,
   canonical |->
     <<"i","r","a","n">>],
  [alias |->
     <<"u","n","i","t","e","d"," ","r","e","p","u","b","l","i","c"," ","o","f"," ","t","a","n","z","a","n","i","a">>,
   canonical |->
     <<"t","a","n","z","a","n","i","a">>],
  [alias |->
     <<"r","e","p","u","b","l","i","c"," ","o","f"," ","m","o","l","d","o","v","a">>,
   canonical |->
     <<"m","o","l","d","o","v","a">>],
  [alias |->
     <<"m","a","c","e","d","o","n","i","a">>,
   canonical |->
     <<"n","o","r","t","h"," ","m","a","c","e","d","o","n","i","a">>],
  [alias |->
     <<"b","o","s","n","i","a"," ","&"," ","h","e","r","z","e","g","o","v","i","n","a">>,
   canonical |->
     <<"b","o","s","n","i","a"," ","a","n","d"," ","h","e","r","z","e","g","o","v","i","n","a">>]
>>

HasAlias(cs) == \E i \in 1..Len(ALIASES) : ALIASES[i].alias = cs
GetAlias(cs) == ALIASES[CHOOSE i \in 1..Len(ALIASES) : ALIASES[i].alias = cs].canonical

\* normalizeCountryName on the characters of its argument.
normalizeChars(cs) ==
  IF cs = <<>> THEN <<>>
  ELSE LET s == StripOtherChars(CollapseSpaces(stripDiacritics(toLowerCase(trim(cs)))))
       IN IF HasAlias(s) THEN GetAlias(s) ELSE s

\* normalizeCountryName(name): the comparison key of a country name.
normalizeCountryName(name) == normalizeChars(Chars[name])
(***************************************************************************)
(* Data model (src/src/types.ts).  A Question | null is a Question or      *)
(* NoQuestion.  A QuestionOptions holds region and itemType (Null when     *)
(* absent) and clueCount as <<>> (absent) or <<k>>.                        *)
(***************************************************************************)
NoQuestion == [correctCountry |-> Null, images |-> <<>>]

CountryItem(type, images) == [type |-> type, images |-> images]
CountryEntry(country, region, items) ==
  [country |-> country, region |-> region, items |-> items]
\* An image labelled with one fixed type.
QuestionImage_relabelled(url, type) == [url |-> url, type |-> "sign"]

QuestionImage(url, type) == [url |-> url, type |-> type]
Question(correctCountry, images) ==
  [correctCountry |-> correctCountry, images |-> images]
QuestionOptions(clueCount, region, itemType) ==
  [clueCount |-> clueCount, region |-> region, itemType |-> itemType]

\* A string is truthy unless it is null, undefined or "".
Truthy(s) == s # Null /\ s # ""

Min(a, b) == IF a < b THEN a ELSE b

\* A slice that cuts nothing: the sampler without its cut to clueCount.
SliceTo_whole(arr, n) == arr

\* Array.prototype.slice(0, n)
SliceTo(arr, n) == SubSeq(arr, 1, Min(n, Len(arr)))

\* Math.floor(Math.random() * n): any index of an array of n elements
\* (1-based here).
RandomIndex(n) == 1..n

\* A swap that writes one of the two places only.
Swap_oneWay(a, i, j) == [a EXCEPT ![i] = a[j]]

\* [copy[i], copy[j]] = [copy[j], copy[i]]
Swap(a, i, j) == [a EXCEPT ![i] = a[j], ![j] = a[i]]

\* The Fisher-Yates loop from position i down (1-based), over every draw.
RECURSIVE ShuffleFrom(_, _)
ShuffleFrom(a, i) ==
  IF i < 2 THEN {a}
  ELSE UNION {ShuffleFrom(Swap(a, i, j), i - 1) : j \in RandomIndex(i)}

\* shuffleArray(arr): the arrays it can return, one per sequence of draws.
shuffleArray(arr) == ShuffleFrom(arr, Len(arr))

HasImages(item) == Len(item.images) > 0

\* validItems(items): the items that hold at least one image.
validItems(items) == SelectSeq(items, HasImages)

\* The images of the items, in order, each with its item's type.
RECURSIVE ImagesOf(_)
ImagesOf(items) ==
  IF items = <<>> THEN <<>>
  ELSE [i \in 1..Len(Head(items).images) |->
          QuestionImage(Head(items).images[i], Head(items).type)]
       \o ImagesOf(Tail(items))

\* The arrays that hold one image of each item, in the items' order
\* (chosenItems.map with one random image per item).
RECURSIVE OneImageEach(_)
OneImageEach(items) ==
  IF items = <<>> THEN {<<>>}
  ELSE {<<QuestionImage(Head(items).images[k], Head(items).type)>> \o rest :
          k \in RandomIndex(Len(Head(items).images)),
          rest \in OneImageEach(Tail(items))}

(***************************************************************************)
(* src/src/lib/questions.ts                                                *)
(***************************************************************************)
MIN_CLUES == 3

\* options.clueCount ?? MIN_CLUES
ClueCountOf(options) ==
  IF options.clueCount = <<>> THEN MIN_CLUES ELSE options.clueCount[1]

\* A type filter that compares the spellings as they are.
MatchesType_exact(item, itemType) ==
  ~Truthy(itemType) \/ item.type = itemType

\* The filter of gatherImages: every item when no itemType is given, else
\* the items whose lower-cased type is the lower-cased itemType.
MatchesType(item, itemType) ==
  \/ ~Truthy(itemType)
  \/ toLowerCase(Chars[item.type]) = toLowerCase(Chars[itemType])

RECURSIVE FilterByType(_, _)
FilterByType(items, itemType) ==
  IF items = <<>> THEN <<>>
  ELSE (IF MatchesType(Head(items), itemType) THEN <<Head(items)>> ELSE <<>>)
       \o FilterByType(Tail(items), itemType)

gatherImages(items, itemType) == ImagesOf(FilterByType(validItems(items), itemType))

\* A builder whose re-check asks for one image more than the filter does.
buildQuestion_strict(entry, options) ==
  LET clueCount == ClueCountOf(options)
      imagesPool == gatherImages(entry.items, options.itemType)
  IN IF Len(imagesPool) < clueCount + 1 THEN {NoQuestion}
     ELSE {Question(entry.country, SliceTo(s, clueCount)) :
             s \in shuffleArray(imagesPool)}

\* buildQuestion(entry, options): the values it can return.
buildQuestion(entry, options) ==
  LET clueCount == ClueCountOf(options)
      imagesPool == gatherImages(entry.items, options.itemType)
  IN IF Len(imagesPool) < clueCount THEN {NoQuestion}
     ELSE {Question(entry.country, SliceTo(s, clueCount)) :
             s \in shuffleArray(imagesPool)}

\* A filter callback that does not look at the region.
IsCandidate_anyRegion(entry, options) ==
  Len(gatherImages(entry.items, options.itemType)) >= ClueCountOf(options)

\* The filter callback of pickQuestion.
IsCandidate(entry, options) ==
  /\ ~(Truthy(options.region) /\ entry.region # options.region)
  /\ Len(gatherImages(entry.items, options.itemType)) >= ClueCountOf(options)

RECURSIVE Candidates(_, _)
Candidates(dataset, options) ==
  IF dataset = <<>> THEN <<>>
  ELSE (IF IsCandidate(Head(dataset), options) THEN <<Head(dataset)>> ELSE <<>>)
       \o Candidates(Tail(dataset), options)

\* pickQuestion(dataset, options): the values it can return.
pickQuestion(dataset, options) ==
  LET candidates == Candidates(dataset, options)
  IN IF Len(candidates) = 0 THEN {NoQuestion}
     ELSE UNION {buildQuestion(candidates[c], options) :
                   c \in RandomIndex(Len(candidates))}

(***************************************************************************)
(* src/unnamed/part_000: the component's own sampler, with per-type mode.  *)
(***************************************************************************)
\* getUniqueTypeItems(items): the first item of each lower-cased type; an
\* item whose type is empty is dropped.
RECURSIVE UniqueFrom(_, _)
UniqueFrom(items, seen) ==
  IF items = <<>> THEN <<>>
  ELSE LET key == toLowerCase(Chars[Head(items).type])
       IN IF key = <<>> \/ key \in seen
          THEN UniqueFrom(Tail(items), seen)
          ELSE <<Head(items)>> \o UniqueFrom(Tail(items), seen \cup {key})
getUniqueTypeItems(items) == UniqueFrom(items, {})

\* getImagesForType(items, itemType)
getImagesForType(items, itemType) == ImagesOf(FilterByType(items, itemType))

\* options.clueCount ?? 3
ClueCountOf_p0(options) ==
  IF options.clueCount = <<>> THEN 3 ELSE options.clueCount[1]

\* buildQuestion(entry, options) of part_000: the values it can return.
buildQuestion_p0(entry, options) ==
  LET clueCount == ClueCountOf_p0(options)
      usableItems == validItems(entry.items)
      imagesPool == getImagesForType(usableItems, options.itemType)
      uniqueItems == getUniqueTypeItems(usableItems)
  IN IF Len(usableItems) = 0 THEN {NoQuestion}
     ELSE IF Truthy(options.itemType)
     THEN IF Len(imagesPool) < clueCount THEN {NoQuestion}
          ELSE {Question(entry.country, SliceTo(s, clueCount)) :
                  s \in shuffleArray(imagesPool)}
     ELSE IF Len(uniqueItems) < clueCount THEN {NoQuestion}
          ELSE UNION {{Question(entry.country, images) :
                         images \in OneImageEach(SliceTo(s, clueCount))} :
                      s \in shuffleArray(uniqueItems)}

\* The filter callback of pickQuestion of part_000.
IsCandidate_p0(entry, options) ==
  LET usableItems == validItems(entry.items)
  IN /\ ~(Truthy(options.region) /\ entry.region # options.region)
     /\ Len(usableItems) # 0
     /\ IF Truthy(options.itemType)
        THEN Len(getImagesForType(usableItems, options.itemType))
               >= ClueCountOf_p0(options)
        ELSE Len(getUniqueTypeItems(usableItems)) >= ClueCountOf_p0(options)

RECURSIVE Candidates_p0(_, _)
Candidates_p0(dataset, options) ==
  IF dataset = <<>> THEN <<>>
  ELSE (IF IsCandidate_p0(Head(dataset), options) THEN <<Head(dataset)>> ELSE <<>>)
       \o Candidates_p0(Tail(dataset), options)

\* pickQuestion(dataset, options) of part_000: the values it can return.
pickQuestion_p0(dataset, options) ==
  LET candidates == Candidates_p0(dataset, options)
  IN IF Len(candidates) = 0 THEN {NoQuestion}
     ELSE UNION {buildQuestion_p0(candidates[c], options) :
                   c \in RandomIndex(Len(candidates))}

(***************************************************************************)
(* src/src/GeoguessrFlashcards.js and src/unnamed/part_001: the first      *)
(* sampler, three clues of three items.                                    *)
(***************************************************************************)
IsCandidate_js(entry) == Len(validItems(entry.items)) >= 3

RECURSIVE Candidates_js(_)
Candidates_js(dataset) ==
  IF dataset = <<>> THEN <<>>
  ELSE (IF IsCandidate_js(Head(dataset)) THEN <<Head(dataset)>> ELSE <<>>)
       \o Candidates_js(Tail(dataset))

\* The question built from the chosen record.
QuestionOf_js(correct) ==
  UNION {{Question(correct.country, images) :
            images \in OneImageEach(SliceTo(itemPool, 3))} :
         itemPool \in shuffleArray(validItems(correct.items))}

\* pickQuestion(dataset): the values it can return.
pickQuestion_js(dataset) ==
  LET candidates == Candidates_js(dataset)
  IN IF Len(candidates) = 0 THEN {NoQuestion}
     ELSE UNION {QuestionOf_js(candidates[c]) :
                   c \in RandomIndex(Len(candidates))}
(***************************************************************************)
(* Inputs of the samplers: datasets as the dataset compiler emits them     *)
(* (items in type order), also with the repeated types, the types that     *)
(* differ in case only and the empty image lists a hand-edited file holds. *)
(***************************************************************************)
MaxRecords == 2
MaxItems == 3
MaxPool == 3
MaxClueCount == 2

TypeOrder == <<"pole", "Pole", "road", "sign">>
CountryNames == <<"France", "Russia", "Russian Federation">>
RegionNames == {"Europe", "Asia"}
FilterTypes == {Null, "POLE"}
FilterRegions == {Null, "Europe"}

\* The images of the item at position i of record r: URLs of its own.
UrlLetters == <<"a", "b", "c", "d", "e", "f">>
UrlOf(r, i, k) == <<r, i, UrlLetters[k]>>
ImagesAt(r, i, n) == [k \in 1..n |-> UrlOf(r, i, k)]

\* shape[i] = <<rank of the type in TypeOrder, number of images>>
ItemsOfShape(r, shape) ==
  [i \in 1..Len(shape) |->
     CountryItem(TypeOrder[shape[i][1]], ImagesAt(r, i, shape[i][2]))]

RECURSIVE SumImages(_)
SumImages(shape) ==
  IF shape = <<>> THEN 0 ELSE Head(shape)[2] + SumImages(Tail(shape))

Shapes ==
  UNION {{s \in [1..n -> (1..Len(TypeOrder)) \X (0..MaxPool)] :
            /\ \A i \in 1..(n - 1) : s[i][1] <= s[i + 1][1]
            /\ SumImages(s) <= MaxPool} :
         n \in 0..MaxItems}

\* The items of shape s that owner gives to record r, in order.
RECURSIVE OwnedBy(_, _, _)
OwnedBy(s, owner, r) ==
  IF s = <<>> THEN <<>>
  ELSE (IF Head(owner) = r THEN <<Head(s)>> ELSE <<>>)
       \o OwnedBy(Tail(s), Tail(owner), r)

\* The shapes whose items hold one image each.
SingleImageShapes == {s \in Shapes : \A i \in 1..Len(s) : s[i][2] = 1}

\* One record of any shape; or two to MaxRecords records that hold at most
\* MaxItems items between them, one image each: the items of one shape,
\* dealt to the records, every record getting one at least.
ShapeLists ==
  {<<>>} \cup {<<s>> : s \in Shapes} \cup
  UNION {UNION {{[r \in 1..n |-> OwnedBy(s, owner, r)] :
                   owner \in {o \in [1..Len(s) -> 1..n] :
                                \A r \in 1..n : \E i \in 1..Len(s) : o[i] = r}} :
                s \in SingleImageShapes} :
         n \in 2..MaxRecords}

\* The datasets: record r is named CountryNames[r] and lies in any region.
Datasets ==
  UNION {{[r \in 1..Len(ss) |->
             CountryEntry(CountryNames[r], regions[r], ItemsOfShape(r, ss[r]))] :
            regions \in [1..Len(ss) -> RegionNames]} :
         ss \in ShapeLists}

OptionSets ==
  {QuestionOptions(c, r, t) :
     c \in {<<>>} \cup {<<k>> : k \in 1..MaxClueCount},
     r \in FilterRegions, t \in FilterTypes}

NoOptions == QuestionOptions(<<>>, Null, Null)

(***************************************************************************)
(* The session: the state of one mounted GeoguessrFlashcards component, of *)
(* its load attempt and of the click handlers bound to the map layer.      *)
(* State updates made by one handler run are committed together (one       *)
(* render per handler run); the layout is the wide one, the map is open.   *)
(***************************************************************************)
VARIABLES
  rev,                  \* the revision mounted: "js", "p1", "p0", "ts", "nr"
  served,               \* the data.json the server holds (index in SessionDatasets)
  data,                 \* useState(null): 0, or the index of the dataset loaded
  worldGeo,             \* useState(null): Null or "world"
  loading,              \* useState(true)
  error,                \* useState(null): Null or the message
  question,             \* useState(null): NoQuestion or a Question
  selected,             \* useState(null): Null or the name clicked
  isCorrect,            \* useState(null): Null, "true" or "false"
  score,                \* useState(0)
  answered,             \* useState(0)
  streak,               \* useState(0)
  visibleClues,         \* useState(1)
  activeRegion,         \* useState(null)
  activeItemType,       \* useState(null)
  filterError,          \* useState(false)
  usedImagesByCountry,  \* the Map of the "nr" revision: country -> keys used
  questionRef,          \* questionRef.current of the "nr" revision
  layer,                \* the GeoJSON layer: its key and what its handlers closed over
  alive,                \* the load effect's alive flag / isMountedRef.current
  loadPc,               \* the load attempt: "fetch", "parse" or "done"
  dataRes,              \* fetch(DATA_PATH): "pending", "ok", "bad", "rejected"
  geoRes,               \* fetch(GEOJSON_PATH): the same
  dataJson,             \* dataRes.json(): "none", "pending", "parsed", "unparsable"
  geoJson               \* geoRes.json(): the same

svars ==
  <<rev, served, data, worldGeo, loading, error, question, selected, isCorrect,
    score, answered, streak, visibleClues, activeRegion, activeItemType,
    filterError, usedImagesByCountry, questionRef, layer, alive, loadPc,
    dataRes, geoRes, dataJson, geoJson>>

\* No layer: the map is not rendered.
NoLayer == [key |-> "<none>", selected |-> Null, question |-> NoQuestion]

\* new Map()
EmptyLedger == [c \in {CountryNames[i] : i \in 1..Len(CountryNames)} |-> {}]

\* No component is mounted (the samplers are called on their own).
SessionIdle ==
  /\ rev = "none" /\ served = 0 /\ data = 0 /\ worldGeo = Null
  /\ loading = FALSE /\ error = Null /\ question = NoQuestion
  /\ selected = Null /\ isCorrect = Null
  /\ score = 0 /\ answered = 0 /\ streak = 0 /\ visibleClues = 0
  /\ activeRegion = Null /\ activeItemType = Null /\ filterError = FALSE
  /\ usedImagesByCountry = EmptyLedger /\ questionRef = NoQuestion
  /\ layer = NoLayer /\ alive = FALSE /\ loadPc = "done"
  /\ dataRes = "pending" /\ geoRes = "pending"
  /\ dataJson = "none" /\ geoJson = "none"

(***************************************************************************)
(* The samplers as pure functions: a call of one revision's pickQuestion   *)
(* or buildQuestion on a dataset and options drawn from the sets above.    *)
(***************************************************************************)
VARIABLES
  impl,       \* the revision called: "lib" (questions.ts), "p0", "js"
  pData,      \* the dataset argument
  pOptions,   \* the options argument
  pCall,      \* "none" before the call, then "pickQuestion" or "buildQuestion"
  pEntry,     \* the record handed to buildQuestion (0 before, its index after)
  pCands,     \* pickQuestion's local candidates
  pRet        \* the value returned

\* normalizeCountryName called on its own, once and then on its result.
VARIABLES
  nIn,        \* the characters of the argument
  nCalls,     \* the calls made: 0, 1 or 2
  nOnce,      \* normalizeCountryName(nIn)
  nTwice      \* normalizeCountryName(normalizeCountryName(nIn))

nvars == <<nIn, nCalls, nOnce, nTwice>>

\* No call of the normaliser is made on its own.
NormIdle == nIn = <<>> /\ nCalls = 0 /\ nOnce = <<>> /\ nTwice = <<>>

\* pickQuestion of the "nr" revision called in a row on one dataset, with
\* one used-image ledger and a random source that returns a fixed sequence.
VARIABLES
  lData,      \* the dataset (index in LedgerDatasets, 0 when none)
  lUsed,      \* usedImagesByCountry, the Map the calls share
  lIssued,    \* the Questions returned so far, in order
  lLast       \* the last call: its excludeCountry and the random sequence

lvars == <<lData, lUsed, lIssued, lLast>>

NoCall == [excludeCountry |-> Null, rnd |-> <<>>]

\* No call with a ledger is made on its own.
LedgerIdle ==
  lData = 0 /\ lUsed = EmptyLedger /\ lIssued = <<>> /\ lLast = NoCall

\* shuffleArray called on its own.
VARIABLES
  hArr,       \* the array handed to shuffleArray
  hDone,      \* whether the call has returned
  hOut        \* the array returned

hvars == <<hArr, hDone, hOut>>

\* No call of shuffleArray is made on its own.
ShuffleIdle == hArr = <<>> /\ hDone = FALSE /\ hOut = <<>>

\* The state of the functions called on their own.
pvars ==
  <<impl, pData, pOptions, pCall, pEntry, pCands, pRet, nvars, lvars, hvars>>

Impls == {"lib", "p0", "js"}

PickInit ==
  /\ impl \in Impls
  /\ pData \in Datasets
  /\ pOptions \in (IF impl = "js" THEN {NoOptions} ELSE OptionSets)
  /\ pCall = "none"
  /\ pEntry = 0
  /\ pCands = <<>>
  /\ pRet = NoQuestion
  /\ NormIdle /\ LedgerIdle /\ ShuffleIdle
  /\ SessionIdle

CandidatesOf(i, dataset, options) ==
  CASE i = "lib" -> Candidates(dataset, options)
    [] i = "p0" -> Candidates_p0(dataset, options)
    [] i = "js" -> Candidates_js(dataset)

PickOf(i, dataset, options) ==
  CASE i = "lib" -> pickQuestion(dataset, options)
    [] i = "p0" -> pickQuestion_p0(dataset, options)
    [] i = "js" -> pickQuestion_js(dataset)

BuildOf(i, entry, options) ==
  CASE i = "lib" -> buildQuestion(entry, options)
    [] i = "p0" -> buildQuestion_p0(entry, options)

\* pickQuestion(pData, pOptions) is called and returns.
PickQuestionCall ==
  /\ pCall = "none"
  /\ pCall' = "pickQuestion"
  /\ pCands' = CandidatesOf(impl, pData, pOptions)
  /\ pRet' \in PickOf(impl, pData, pOptions)
  /\ UNCHANGED <<impl, pData, pOptions, pEntry, nvars, lvars, hvars>>
  /\ UNCHANGED svars

\* buildQuestion(pData[i], pOptions) is called and returns.
BuildQuestionCall ==
  /\ pCall = "none"
  /\ impl \in {"lib", "p0"}
  /\ \E i \in 1..Len(pData) :
       /\ pEntry' = i
       /\ pRet' \in BuildOf(impl, pData[i], pOptions)
  /\ pCall' = "buildQuestion"
  /\ UNCHANGED <<impl, pData, pOptions, pCands, nvars, lvars, hvars>>
  /\ UNCHANGED svars

PickNext == PickQuestionCall \/ BuildQuestionCall

vars == <<pvars, svars>>

SpecPick == PickInit /\ [][PickNext]_vars

(***************************************************************************)
(* Properties of the samplers (SpecPick).                                  *)
(***************************************************************************)
\* The options' clue count as the called revision reads it.
ClueCountIn(i, options) ==
  CASE i = "lib" -> ClueCountOf(options)
    [] i = "p0" -> ClueCountOf_p0(options)
    [] i = "js" -> 3

InCands(entry) == \E j \in 1..Len(pCands) : pCands[j] = entry

EqualIgnoringCase(a, b) ==
  /\ Len(Chars[a]) = Len(Chars[b])
  /\ \A i \in 1..Len(Chars[a]) : LowerChar(Chars[a][i]) = LowerChar(Chars[b][i])

\* The clue types of a record that hold an image, letter case ignored.
TypesWithImages(entry) ==
  {toLowerCase(Chars[entry.items[i].type]) :
     i \in {j \in 1..Len(entry.items) : Len(entry.items[j].images) > 0}}

RECURSIVE ImagesOfType(_, _)
ImagesOfType(items, itemType) ==
  IF items = <<>> THEN 0
  ELSE (IF EqualIgnoringCase(Head(items).type, itemType)
        THEN Len(Head(items).images) ELSE 0)
       + ImagesOfType(Tail(items), itemType)

RegionAdmits(entry, options) ==
  ~Truthy(options.region) \/ entry.region = options.region

\* C4: with no itemType, a record is a candidate exactly when at least
\* clueCount (3 by default) of its clue types hold an image; so pickQuestion
\* returns null on a dataset whose records all have fewer than 3 such types,
\* however many images a type holds.
C4_PerTypeFilter ==
  (pCall = "pickQuestion" /\ impl \in {"lib", "p0"} /\ ~Truthy(pOptions.itemType)) =>
    /\ \A i \in 1..Len(pData) :
         InCands(pData[i]) <=>
           /\ RegionAdmits(pData[i], pOptions)
           /\ Cardinality(TypesWithImages(pData[i])) >= ClueCountIn(impl, pOptions)
    /\ (/\ pOptions.clueCount = <<>>
        /\ \A i \in 1..Len(pData) : Cardinality(TypesWithImages(pData[i])) < 3)
         => pRet = NoQuestion

\* C5: with no itemType, no two images of a returned Question share a type.
C5_DistinctTypes ==
  (pCall # "none" /\ ~Truthy(pOptions.itemType) /\ pRet # NoQuestion) =>
    \A i, j \in 1..Len(pRet.images) :
      i # j => pRet.images[i].type # pRet.images[j].type

\* C6: buildQuestion on a qualifying record with clueCount = k returns a
\* Question of exactly k images whose correctCountry is the record's country,
\* whatever the draws; and so does pickQuestion for the record it chose.
C6_Cardinality ==
  /\ (pCall = "buildQuestion" /\ Len(CandidatesOf(impl, <<pData[pEntry]>>, pOptions)) = 1)
       => /\ pRet # NoQuestion
          /\ Len(pRet.images) = ClueCountIn(impl, pOptions)
          /\ pRet.correctCountry = pData[pEntry].country
  /\ (pCall = "pickQuestion" /\ pRet # NoQuestion)
       => /\ Len(pRet.images) = ClueCountIn(impl, pOptions)
          /\ \E j \in 1..Len(pCands) : pCands[j].country = pRet.correctCountry

\* C6's case: three usable items, two clues asked for, a Question returned.
C6_Witness ==
  /\ pCall = "buildQuestion"
  /\ impl = "p0"
  /\ pOptions.clueCount = <<2>>
  /\ ~Truthy(pOptions.itemType)
  /\ Len(validItems(pData[pEntry].items)) = 3
  /\ pRet # NoQuestion
  /\ Len(pRet.images) = 2

\* C7: with an itemType, a record qualifies exactly when the images of its
\* items whose type equals itemType ignoring letter case number at least
\* clueCount, and every image of a returned Question has such a type.
C7_Pooled ==
  (pCall # "none" /\ impl \in {"lib", "p0"} /\ Truthy(pOptions.itemType)) =>
    /\ pCall = "pickQuestion" =>
         \A i \in 1..Len(pData) :
           InCands(pData[i]) <=>
             /\ RegionAdmits(pData[i], pOptions)
             /\ ImagesOfType(pData[i].items, pOptions.itemType)
                  >= ClueCountIn(impl, pOptions)
    /\ pRet # NoQuestion =>
         \A i \in 1..Len(pRet.images) :
           EqualIgnoringCase(pRet.images[i].type, pOptions.itemType)

\* C7's case: the type asked for is "POLE"; the record holds "pole", "Pole"
\* and another type, and the Question shows both spellings.
C7_Witness ==
  /\ pCall = "pickQuestion"
  /\ impl = "lib"
  /\ pOptions.itemType = "POLE"
  /\ pRet # NoQuestion
  /\ Len(pCands) = 1
  /\ \E i \in 1..Len(pCands[1].items) : pCands[1].items[i].type = "road"
  /\ \E i, j \in 1..Len(pRet.images) :
       pRet.images[i].type = "pole" /\ pRet.images[j].type = "Pole"

\* C8: with a region, the correctCountry of a Question that pickQuestion
\* returns is that of a record whose region is exactly the region asked
\* for, and pickQuestion returns null when no record of that region meets
\* the clue-count requirement.
C8_Region ==
  (pCall = "pickQuestion" /\ impl \in {"lib", "p0"} /\ Truthy(pOptions.region)) =>
    /\ pRet # NoQuestion =>
         \E i \in 1..Len(pData) :
           /\ pData[i].country = pRet.correctCountry
           /\ pData[i].region = pOptions.region
    /\ (\A i \in 1..Len(pData) :
          \/ pData[i].region # pOptions.region
          \/ Len(CandidatesOf(impl, <<pData[i]>>,
                              [pOptions EXCEPT !.region = Null])) = 0)
         => pRet = NoQuestion

\* C8's case: the first record meets the clue count but lies elsewhere, the
\* second lies in the region asked for and is the one returned.
C8_Witness ==
  /\ pCall = "pickQuestion"
  /\ impl = "lib"
  /\ pOptions.region = "Europe"
  /\ Len(pData) = 2
  /\ pData[1].region = "Asia"
  /\ pData[2].region = "Europe"
  /\ Len(CandidatesOf(impl, <<pData[1]>>, [pOptions EXCEPT !.region = Null])) = 1
  /\ pRet.correctCountry = pData[2].country

(***************************************************************************)
(* The session state machine.                                              *)
(***************************************************************************)
MaxAnswered == 2

Revisions == {"js", "p1", "p0", "ts", "nr"}

\* The countries the world map shows (feature.properties.name).
MapNames == {"France", "Russia", "Russian Federation"}

\* pole, road and sign, one image each.
ThreeTypes == <<<<1, 1>>, <<3, 1>>, <<4, 1>>>>

\* The data.json files a session is served: two countries with three clue
\* types each; one country whose only type holds three images; one country
\* with a single image; one country as the dataset compiler emits it, its
\* region the empty string; and a file whose second record has no items.
SessionDatasets ==
  << <<CountryEntry("France", "Europe", ItemsOfShape(1, ThreeTypes)),
       CountryEntry("Russia", "Asia", ItemsOfShape(2, ThreeTypes))>>,
     <<CountryEntry("France", "Europe", ItemsOfShape(1, <<<<1, 3>>>>))>>,
     <<CountryEntry("France", "Europe", ItemsOfShape(1, <<<<1, 1>>>>))>>,
     <<CountryEntry("France", "", ItemsOfShape(1, ThreeTypes))>>,
     <<CountryEntry("France", "Europe", ItemsOfShape(1, ThreeTypes)),
       CountryEntry("Russia", "Asia", <<>>)>> >>

\* datasetSchema.parse succeeds (validateDataset returns, does not throw).
datasetSchema(dataset) ==
  /\ Len(dataset) >= 1
  /\ \A r \in 1..Len(dataset) :
       /\ Len(Chars[dataset[r].country]) >= 1
       /\ Len(Chars[dataset[r].region]) >= 1
       /\ Len(dataset[r].items) >= 1
       /\ \A i \in 1..Len(dataset[r].items) :
            /\ Len(Chars[dataset[r].items[i].type]) >= 1
            /\ Len(dataset[r].items[i].images) >= 1

\* getRegions(dataset): the regions that are not empty (as a set; the code
\* sorts them for display).
getRegions(dataset) ==
  {dataset[r].region : r \in {q \in 1..Len(dataset) : Truthy(dataset[q].region)}}

\* The item types of the dataset in reading order.
RECURSIVE TypesOf(_)
TypesOf(dataset) ==
  IF dataset = <<>> THEN <<>>
  ELSE [i \in 1..Len(Head(dataset).items) |-> Head(dataset).items[i].type]
       \o TypesOf(Tail(dataset))

\* getItemTypes(dataset): the first spelling met of each lower-cased type
\* (as a set; the code sorts them for display).
getItemTypes(dataset) ==
  LET types == TypesOf(dataset)
  IN {types[i] : i \in {j \in 1..Len(types) :
        /\ Truthy(types[j])
        /\ \A k \in 1..(j - 1) :
             toLowerCase(Chars[types[k]]) # toLowerCase(Chars[types[j]])}}

(***************************************************************************)
(* pickQuestion of the "nr" revision (src/unnamed/part_002:656-689), with  *)
(* the used-image ledger.  A ledger key `${it.type}|${u}` is held as the   *)
(* pair <<type, url>>.                                                     *)
(***************************************************************************)
\* chosenItems.map(...): the images issued and the ledger of the country
\* afterwards, over every shuffle.
RECURSIVE IssueImages(_, _)
IssueImages(items, usedForCountry) ==
  IF items = <<>> THEN {[images |-> <<>>, used |-> usedForCountry]}
  ELSE LET it == Head(items)
       IN UNION {
            LET free == {k \in 1..Len(imgs) : <<it.type, imgs[k]>> \notin usedForCountry}
                choice == IF free = {} THEN imgs[1]
                          ELSE imgs[CHOOSE k \in free : \A m \in free : k <= m]
                cleared == IF free = {}
                           THEN usedForCountry \ {<<it.type, it.images[k]>> :
                                                    k \in 1..Len(it.images)}
                           ELSE usedForCountry
                rest == IssueImages(Tail(items), cleared \cup {<<it.type, choice>>})
            IN {[images |-> <<QuestionImage(choice, it.type)>> \o r.images,
                 used |-> r.used] : r \in rest}
            : imgs \in shuffleArray(it.images)}

\* A pool that never leaves the previous country out.
PoolOf_nr_all(candidates, excludeCountry) == candidates

\* The pool the country is drawn from: the candidates, less the previous
\* country when there is another.
PoolOf_nr(candidates, excludeCountry) ==
  LET Differs(c) ==
        normalizeCountryName(c.country) # normalizeCountryName(excludeCountry)
      others == SelectSeq(candidates, Differs)
  IN IF Truthy(excludeCountry) /\ Len(candidates) > 1 /\ Len(others) > 0
     THEN others ELSE candidates

\* pickQuestion(dataset, excludeCountry, usedImagesByCountry): the Question
\* returned (q) and the ledger afterwards (used), over every draw.
pickQuestion_nr(dataset, excludeCountry, used) ==
  LET candidates == Candidates_js(dataset)
      pool == PoolOf_nr(candidates, excludeCountry)
  IN IF Len(candidates) = 0 THEN {[q |-> NoQuestion, used |-> used]}
     ELSE UNION {UNION {
            {[q |-> Question(pool[c].country, r.images),
              used |-> [used EXCEPT ![pool[c].country] = r.used]] :
               r \in IssueImages(SliceTo(itemPool, 3), used[pool[c].country])}
            : itemPool \in shuffleArray(validItems(pool[c].items))}
          : c \in RandomIndex(Len(pool))}

(***************************************************************************)
(* Rendering: which screen the component returns, and the GeoJSON layer.   *)
(* react-leaflet reads onEachFeature when it creates the layer, and        *)
(* creates it anew only when the element's key changes.                    *)
(***************************************************************************)
\* The component returns the main screen (the one with the map).
MainShown(r, ld, er, q, wg) ==
  /\ ~ld
  /\ IF r = "p0" THEN ~Truthy(er) /\ Truthy(wg)
     ELSE ~(Truthy(er) \/ q = NoQuestion \/ ~Truthy(wg))

\* A GeoJSON element whose key never changes.
LayerKey_fixed(r, q) == "init"

\* The key of the GeoJSON element.
LayerKey(r, q) ==
  CASE r = "nr" -> "<no key>"
    [] r = "ts" -> q.correctCountry
    [] OTHER -> IF Truthy(q.correctCountry) THEN q.correctCountry ELSE "init"

\* The layer after a render: kept while the key is the same, else created
\* with the handlers of this render (onEachCountry).
onEachCountry(r, old, ld, er, q, wg, sel, mounted) ==
  IF ~mounted \/ ~MainShown(r, ld, er, q, wg) THEN NoLayer
  ELSE IF old = NoLayer \/ old.key # LayerKey(r, q)
  THEN [key |-> LayerKey(r, q), selected |-> sel, question |-> q]
  ELSE old

\* The render that follows a handler run, and the effect that stores the
\* question in questionRef.
Commit ==
  /\ layer' = onEachCountry(rev, layer, loading', error', question', worldGeo',
                            selected', alive')
  /\ questionRef' = IF rev = "nr" THEN question' ELSE NoQuestion

answerVars == <<selected, isCorrect, score, answered, streak>>
filterVars == <<activeRegion, activeItemType>>
fetchVars == <<dataRes, geoRes, dataJson, geoJson>>

\* No sampler call is in progress on its own.
SamplerIdle ==
  /\ impl = "none" /\ pData = <<>> /\ pOptions = NoOptions
  /\ pCall = "none" /\ pEntry = 0 /\ pCands = <<>> /\ pRet = NoQuestion

\* No function is called on its own.
PickIdle == SamplerIdle /\ NormIdle /\ LedgerIdle /\ ShuffleIdle

\* The component is mounted and its load effect has started both fetches.
Mounted(r, s) ==
  /\ rev = r /\ served = s /\ data = 0 /\ worldGeo = Null
  /\ loading = TRUE /\ error = Null /\ question = NoQuestion
  /\ selected = Null /\ isCorrect = Null
  /\ score = 0 /\ answered = 0 /\ streak = 0 /\ visibleClues = 1
  /\ activeRegion = Null /\ activeItemType = Null /\ filterError = FALSE
  /\ usedImagesByCountry = EmptyLedger /\ questionRef = NoQuestion
  /\ layer = NoLayer /\ alive = TRUE /\ loadPc = "fetch"
  /\ dataRes = "pending" /\ geoRes = "pending"
  /\ dataJson = "none" /\ geoJson = "none"

Init ==
  /\ \E r \in Revisions, s \in 1..Len(SessionDatasets) : Mounted(r, s)
  /\ PickIdle

\* The values the two selects of part_000 can take.
FilterRegionValues == {Null} \cup RegionNames
FilterTypeValues == {Null} \cup {TypeOrder[i] : i \in 1..Len(TypeOrder)}

\* The state a waiting step leaves alone.
componentVars ==
  <<data, worldGeo, loading, error, question, answerVars, visibleClues,
    filterVars, filterError, usedImagesByCountry, questionRef, layer, alive>>

\* The catch and finally blocks of the load: the message is stored (in the
\* "ts" revision only while mounted), loading is cleared while mounted.
LoadFails(msg) ==
  /\ error' = IF rev = "ts" /\ ~alive THEN error ELSE msg
  /\ loading' = IF alive THEN FALSE ELSE loading
  /\ loadPc' = "done"
  /\ UNCHANGED <<data, worldGeo, question, answerVars, visibleClues, filterVars,
                 filterError, usedImagesByCountry, alive>>
  /\ Commit

\* A reroll that keeps the counts whatever resetStats says (the lenient
\* policy).
rerollQuestion_lenient(d, region, itemType, resetStats) ==
  \E next \in pickQuestion_p0(SessionDatasets[d],
                              QuestionOptions(<<>>, region, itemType)) :
    /\ error' = Null
    /\ question' = next
    /\ filterError' = (next = NoQuestion)
    /\ selected' = Null
    /\ isCorrect' = Null
    /\ visibleClues' = IF next = NoQuestion THEN 0 ELSE 1
    /\ UNCHANGED <<score, answered, streak>>

\* A reroll that leaves the revealed-clue count of the old question.
rerollQuestion_keepsClues(d, region, itemType, resetStats) ==
  \E next \in pickQuestion_p0(SessionDatasets[d],
                              QuestionOptions(<<>>, region, itemType)) :
    /\ error' = Null
    /\ question' = next
    /\ filterError' = (next = NoQuestion)
    /\ selected' = Null
    /\ isCorrect' = Null
    /\ UNCHANGED visibleClues
    /\ IF resetStats
       THEN score' = 0 /\ answered' = 0 /\ streak' = 0
       ELSE UNCHANGED <<score, answered, streak>>

\* rerollQuestion({resetStats}) of part_000 on dataset d under the filters.
rerollQuestion(d, region, itemType, resetStats) ==
  \E next \in pickQuestion_p0(SessionDatasets[d],
                              QuestionOptions(<<>>, region, itemType)) :
    /\ error' = Null
    /\ question' = next
    /\ filterError' = (next = NoQuestion)
    /\ selected' = Null
    /\ isCorrect' = Null
    /\ visibleClues' = IF next = NoQuestion THEN 0 ELSE 1
    /\ IF resetStats
       THEN score' = 0 /\ answered' = 0 /\ streak' = 0
       ELSE UNCHANGED <<score, answered, streak>>

\* activeRegion || undefined
OrUndefined(s) == IF Truthy(s) THEN s ELSE Null

\* The load after both bodies are parsed: nothing when torn down; else the
\* dataset and the map are stored and the first question is drawn (in
\* part_000 by the effect that follows the render, with the counts reset).
LoadSucceeds ==
  /\ loadPc' = "done"
  /\ IF ~alive
     THEN UNCHANGED <<data, worldGeo, loading, error, question, answerVars,
                      visibleClues, filterVars, filterError,
                      usedImagesByCountry, alive>>
     ELSE /\ data' = served
          /\ worldGeo' = "world"
          /\ loading' = FALSE
          /\ UNCHANGED <<filterVars, alive>>
          /\ CASE rev \in {"js", "p1"} ->
                    /\ question' \in pickQuestion_js(SessionDatasets[served])
                    /\ UNCHANGED <<error, answerVars, visibleClues, filterError,
                                   usedImagesByCountry>>
               [] rev = "nr" ->
                    \E r \in pickQuestion_nr(SessionDatasets[served], Null,
                                             usedImagesByCountry) :
                      /\ question' = r.q
                      /\ usedImagesByCountry' = r.used
                      /\ UNCHANGED <<error, answerVars, visibleClues, filterError>>
               [] rev = "p0" ->
                    /\ rerollQuestion(served, OrUndefined(activeRegion),
                                      OrUndefined(activeItemType), TRUE)
                    /\ UNCHANGED usedImagesByCountry
               [] rev = "ts" ->
                    \E initialQuestion \in
                         pickQuestion(SessionDatasets[served],
                                      QuestionOptions(<<>>, activeRegion, activeItemType)) :
                      /\ question' = initialQuestion
                      /\ error' = IF initialQuestion = NoQuestion
                                  THEN "Dataset does not contain enough clues"
                                  ELSE Null
                      /\ UNCHANGED <<answerVars, visibleClues, filterError,
                                     usedImagesByCountry>>
  /\ Commit

\* await Promise.all([fetch, fetch]): the load keeps waiting while either
\* response is pending.
AwaitsResponses(d, g) == d = "pending" \/ g = "pending"

\* A load that resumes as soon as one body has been read.
AwaitsBodies_either(dj, gj) == dj = "pending" /\ gj = "pending"

\* await Promise.all([dataRes.json(), geoRes.json()]), or the two awaits of
\* the "ts" revision in turn: the load keeps waiting while either body is
\* still to be read.
AwaitsBodies(dj, gj) == dj = "pending" \/ gj = "pending"

\* One of the two fetches settles: with a response that is ok, with one
\* that is not, or rejected.  Promise.all rejects on the first rejection and
\* resolves when both have a response; the statuses are then checked, data
\* first, and the bodies are read.
FetchSettles(which, outcome) ==
  /\ loadPc = "fetch"
  /\ (IF which = "data" THEN dataRes ELSE geoRes) = "pending"
  /\ dataRes' = (IF which = "data" THEN outcome ELSE dataRes)
  /\ geoRes' = (IF which = "geo" THEN outcome ELSE geoRes)
  /\ IF outcome = "rejected"
     THEN UNCHANGED <<dataJson, geoJson>> /\ LoadFails("Failed to fetch")
     ELSE IF AwaitsResponses(dataRes', geoRes')
     THEN UNCHANGED <<dataJson, geoJson, loadPc, componentVars>>
     ELSE IF dataRes' # "ok"
     THEN UNCHANGED <<dataJson, geoJson>> /\ LoadFails("Failed data.json")
     ELSE IF geoRes' # "ok"
     THEN UNCHANGED <<dataJson, geoJson>> /\ LoadFails("Failed world.json")
     ELSE /\ loadPc' = "parse"
          /\ dataJson' = "pending"
          /\ geoJson' = (IF rev = "ts" THEN "none" ELSE "pending")
          /\ UNCHANGED componentVars
  /\ UNCHANGED <<rev, served, pvars>>

\* One of the two bodies is read: it parses or it does not.  The "ts"
\* revision reads the dataset, validates it, and only then reads the map;
\* the others read both at once (Promise.all).
ParseSettles(which, outcome) ==
  /\ loadPc = "parse"
  /\ (IF which = "data" THEN dataJson ELSE geoJson) = "pending"
  /\ LET valid == rev # "ts" \/ datasetSchema(SessionDatasets[served])
     IN /\ dataJson' = (IF which = "data" THEN outcome ELSE dataJson)
        /\ geoJson' = (IF which = "geo" THEN outcome
                       ELSE IF rev = "ts" /\ outcome = "parsed" /\ valid
                       THEN "pending" ELSE geoJson)
        /\ IF outcome = "unparsable" THEN LoadFails("Unexpected token")
           ELSE IF which = "data" /\ ~valid THEN LoadFails("Invalid dataset")
           ELSE IF AwaitsBodies(dataJson', geoJson')
           THEN UNCHANGED <<loadPc, componentVars>>
           ELSE LoadSucceeds
  /\ UNCHANGED <<rev, served, dataRes, geoRes, pvars>>

\* The component is torn down: the cleanup of the load effect runs.
Unmount ==
  /\ alive
  /\ alive' = FALSE
  /\ layer' = NoLayer
  /\ UNCHANGED <<rev, served, data, worldGeo, loading, error, question,
                 answerVars, visibleClues, filterVars, filterError,
                 usedImagesByCountry, questionRef, loadPc, fetchVars, pvars>>

loadVars == <<loadPc, fetchVars>>

\* The streak after an accepted click: one more when correct, 0 when not;
\* the "js" and "nr" revisions keep no streak.  (First a variant that keeps
\* the streak through a wrong answer.)
streakAfter_kept(correct) == IF correct THEN streak + 1 ELSE streak

\* A variant that counts every answer.
streakAfter_counted(correct) == streak + 1

streakAfter(correct) ==
  IF rev \in {"js", "nr"} THEN streak
  ELSE IF correct THEN streak + 1 ELSE 0

\* A judgement that takes every click for right.
Judged_always(name, q) == TRUE

\* const correct = countryName === question.correctCountry
Judged(name, q) == name = q.correctCountry

\* A click on the polygon called name: the layer runs the handler it was
\* given when it was created, handleCountryClick of that render (which in
\* the "nr" revision reads the question through questionRef).
handleCountryClick(name) ==
  /\ alive
  /\ layer # NoLayer
  /\ answered < MaxAnswered
  /\ LET q == IF rev = "nr" THEN questionRef ELSE layer.question
         correct == Judged(name, q)
     IN IF Truthy(layer.selected) \/ q = NoQuestion
        THEN UNCHANGED answerVars
        ELSE /\ selected' = name
             /\ isCorrect' = (IF correct THEN "true" ELSE "false")
             /\ answered' = answered + 1
             /\ score' = (IF correct THEN score + 1 ELSE score)
             /\ streak' = streakAfter(correct)
  /\ UNCHANGED <<rev, served, data, worldGeo, loading, error, question,
                 visibleClues, filterVars, filterError, usedImagesByCountry,
                 alive, loadVars, pvars>>
  /\ Commit

\* nextQuestion: the Next Question button, the Try Again button of the
\* error screen ("js", "p1", "nr"), the Try again button of the filter
\* message ("p0"), or the Enter key ("p1", "p0", "ts", on any screen).
nextQuestion ==
  /\ alive
  /\ rev \in {"p1", "p0", "ts"} \/ ~loading
  /\ IF data = 0
     THEN UNCHANGED <<error, question, answerVars, visibleClues, filterError,
                      usedImagesByCountry>>
     ELSE CASE rev \in {"js", "p1"} ->
                 /\ question' \in pickQuestion_js(SessionDatasets[data])
                 /\ selected' = Null
                 /\ isCorrect' = Null
                 /\ visibleClues' = (IF rev = "p1" THEN 1 ELSE visibleClues)
                 /\ UNCHANGED <<error, score, answered, streak, filterError,
                                usedImagesByCountry>>
            [] rev = "nr" ->
                 \E r \in pickQuestion_nr(SessionDatasets[data],
                                          OrUndefined(question.correctCountry),
                                          usedImagesByCountry) :
                   /\ question' = r.q
                   /\ usedImagesByCountry' = r.used
                   /\ selected' = Null
                   /\ isCorrect' = Null
                   /\ UNCHANGED <<error, score, answered, streak, visibleClues,
                                  filterError>>
            [] rev = "p0" ->
                 /\ rerollQuestion(data, OrUndefined(activeRegion),
                                   OrUndefined(activeItemType), FALSE)
                 /\ UNCHANGED usedImagesByCountry
            [] rev = "ts" ->
                 \E fallback \in
                      pickQuestion(SessionDatasets[data],
                                   QuestionOptions(<<>>, activeRegion, activeItemType)) :
                   /\ selected' = Null
                   /\ isCorrect' = Null
                   /\ visibleClues' = 1
                   /\ question' = fallback
                   /\ error' = IF fallback = NoQuestion
                               THEN "No questions available" ELSE Null
                   /\ UNCHANGED <<score, answered, streak, filterError,
                                  usedImagesByCountry>>
  /\ UNCHANGED <<rev, served, data, worldGeo, loading, filterVars, alive,
                 loadVars, pvars>>
  /\ Commit

\* A reveal that does not stop at the number of images.
Reveal_unbounded ==
  /\ alive
  /\ rev \in {"p1", "p0", "ts"}
  /\ rev = "p0" => question # NoQuestion
  /\ visibleClues' = visibleClues + 1
  /\ UNCHANGED <<rev, served, data, worldGeo, loading, error, question,
                 answerVars, filterVars, filterError, usedImagesByCountry,
                 alive, loadVars, pvars>>
  /\ Commit

\* The Reveal buttons and the H key: one more clue, up to the number of
\* images (to 3 when "p1" or "ts" hold no question).
Reveal ==
  /\ alive
  /\ rev \in {"p1", "p0", "ts"}
  /\ rev = "p0" => question # NoQuestion
  /\ visibleClues' =
       Min(IF Len(question.images) > 0 THEN Len(question.images) ELSE 3,
           visibleClues + 1)
  /\ UNCHANGED <<rev, served, data, worldGeo, loading, error, question,
                 answerVars, filterVars, filterError, usedImagesByCountry,
                 alive, loadVars, pvars>>
  /\ Commit

\* The region select of part_000 changes to value (Null: all regions); the
\* effect on rerollQuestion then draws anew and resets the counts.
SelectRegion(value) ==
  /\ rev = "p0" /\ alive
  /\ MainShown(rev, loading, error, question, worldGeo)
  /\ data # 0
  /\ getRegions(SessionDatasets[data]) # {}
  /\ value \in {Null} \cup getRegions(SessionDatasets[data])
  /\ value # OrUndefined(activeRegion)
  /\ activeRegion' = value
  /\ UNCHANGED activeItemType
  /\ rerollQuestion(data, OrUndefined(value), OrUndefined(activeItemType), TRUE)
  /\ UNCHANGED <<rev, served, data, worldGeo, loading, usedImagesByCountry,
                 alive, loadVars, pvars>>
  /\ Commit

\* The clue-type select of part_000 changes to value (Null: all types).
SelectItemType(value) ==
  /\ rev = "p0" /\ alive
  /\ MainShown(rev, loading, error, question, worldGeo)
  /\ data # 0
  /\ getItemTypes(SessionDatasets[data]) # {}
  /\ value \in {Null} \cup getItemTypes(SessionDatasets[data])
  /\ value # OrUndefined(activeItemType)
  /\ activeItemType' = value
  /\ UNCHANGED activeRegion
  /\ rerollQuestion(data, OrUndefined(activeRegion), OrUndefined(value), TRUE)
  /\ UNCHANGED <<rev, served, data, worldGeo, loading, usedImagesByCountry,
                 alive, loadVars, pvars>>
  /\ Commit

\* The filter message of part_000 is shown.
showFilterMessage ==
  /\ rev = "p0"
  /\ MainShown(rev, loading, error, question, worldGeo)
  /\ question = NoQuestion
  /\ filterError

\* clearFilters, the button of the filter message: both filters are set to
\* null; when one was set the effect on rerollQuestion runs.
clearFilters ==
  /\ alive
  /\ showFilterMessage
  /\ activeRegion' = Null
  /\ activeItemType' = Null
  /\ IF activeRegion = Null /\ activeItemType = Null
     THEN UNCHANGED <<error, question, filterError, answerVars, visibleClues>>
     ELSE rerollQuestion(data, Null, Null, TRUE)
  /\ UNCHANGED <<rev, served, data, worldGeo, loading, usedImagesByCountry,
                 alive, loadVars, pvars>>
  /\ Commit

\* The Try Again button of the error screen of the "ts" revision:
\* loadInitialData runs again.
loadInitialData ==
  /\ rev = "ts" /\ alive
  /\ ~loading
  /\ ~MainShown(rev, loading, error, question, worldGeo)
  /\ loading' = TRUE
  /\ loadPc' = "fetch"
  /\ dataRes' = "pending" /\ geoRes' = "pending"
  /\ dataJson' = "none" /\ geoJson' = "none"
  /\ UNCHANGED <<rev, served, data, worldGeo, error, question, answerVars,
                 visibleClues, filterVars, filterError, usedImagesByCountry,
                 alive, pvars>>
  /\ Commit

\* The Try Again and Reload buttons of part_000: window.location.reload(),
\* the page starts over.
Reload ==
  /\ rev = "p0" /\ alive
  /\ ~loading
  /\ Truthy(error) \/ ~Truthy(worldGeo)
  /\ data' = 0 /\ worldGeo' = Null /\ loading' = TRUE /\ error' = Null
  /\ question' = NoQuestion /\ selected' = Null /\ isCorrect' = Null
  /\ score' = 0 /\ answered' = 0 /\ streak' = 0 /\ visibleClues' = 1
  /\ activeRegion' = Null /\ activeItemType' = Null /\ filterError' = FALSE
  /\ usedImagesByCountry' = EmptyLedger /\ questionRef' = NoQuestion
  /\ layer' = NoLayer /\ loadPc' = "fetch"
  /\ dataRes' = "pending" /\ geoRes' = "pending"
  /\ dataJson' = "none" /\ geoJson' = "none"
  /\ UNCHANGED <<rev, served, alive, pvars>>

Next ==
  \/ \E which \in {"data", "geo"}, outcome \in {"ok", "bad", "rejected"} :
       FetchSettles(which, outcome)
  \/ \E which \in {"data", "geo"}, outcome \in {"parsed", "unparsable"} :
       ParseSettles(which, outcome)
  \/ Unmount
  \/ \E name \in MapNames : handleCountryClick(name)
  \/ nextQuestion
  \/ Reveal
  \/ \E value \in FilterRegionValues : SelectRegion(value)
  \/ \E value \in FilterTypeValues : SelectItemType(value)
  \/ clearFilters
  \/ loadInitialData
  \/ Reload

Spec == Init /\ [][Next]_vars

(***************************************************************************)
(* Properties of the session (Spec).                                       *)
(***************************************************************************)
\* getFeatureStyle(feature) of the "nr" revision, for the polygon called
\* name: "base"; "right" or "wrong" for the polygon selected; "answer" for
\* the correct country shown after a wrong answer.  Names are compared
\* through normalizeCountryName.
getFeatureStyle(name) ==
  LET isSelected == normalizeCountryName(name) = normalizeCountryName(selected)
      isCorrectCountry ==
        normalizeCountryName(name) = normalizeCountryName(question.correctCountry)
  IN IF ~Truthy(selected) THEN "base"
     ELSE IF isSelected THEN (IF isCorrect = "true" THEN "right" ELSE "wrong")
     ELSE IF isCorrect # "true" /\ isCorrectCountry THEN "answer"
     ELSE "base"

\* C1: once a click has been accepted for the question held, a further click
\* on the map, through the handler the layer holds, leaves selected,
\* isCorrect, score, answered and streak as they are.
C1_DoubleAnswerGuard ==
  [][\A name \in MapNames :
       (Truthy(selected) /\ handleCountryClick(name)) => UNCHANGED answerVars]_vars

\* C2: a click accepted on an active, unanswered question adds 1 to
\* answered; when the name clicked is question.correctCountry it adds 1 to
\* score and to streak, otherwise streak becomes 0 and score is kept.
C2_AnswerEffects ==
  [][\A name \in MapNames :
       (question # NoQuestion /\ ~Truthy(selected) /\ handleCountryClick(name)) =>
         /\ answered' = answered + 1
         /\ IF name = question.correctCountry
            THEN /\ score' = score + 1
                 /\ rev \in {"p1", "p0", "ts"} => streak' = streak + 1
            ELSE /\ score' = score
                 /\ rev \in {"p1", "p0", "ts"} => streak' = 0]_vars

\* C2's case: a correct answer and then a wrong one have been accepted in a
\* revision that keeps a streak.
C2_Witness ==
  /\ rev = "p1"
  /\ answered = 2 /\ score = 1 /\ streak = 0
  /\ isCorrect = "false"
  /\ Truthy(selected) /\ selected # question.correctCountry

\* C3: in the "nr" revision the stored isCorrect is true exactly when the
\* normalised name clicked equals the normalised correctCountry, so the
\* polygon selected is never painted wrong while getFeatureStyle's own
\* comparison finds it to be the correct country.
C3_NormalizedEvaluator ==
  (rev = "nr" /\ Truthy(selected) /\ question # NoQuestion) =>
    /\ (isCorrect = "true") <=>
         (normalizeCountryName(selected) = normalizeCountryName(question.correctCountry))
    /\ \A name \in MapNames :
         getFeatureStyle(name) = "wrong" =>
           normalizeCountryName(name) # normalizeCountryName(question.correctCountry)

\* The records of the dataset loaded that qualify under the active filters.
QualifyingNow ==
  IF rev = "ts"
  THEN Candidates(SessionDatasets[data],
                  QuestionOptions(<<>>, activeRegion, activeItemType))
  ELSE Candidates_p0(SessionDatasets[data],
                     QuestionOptions(<<>>, OrUndefined(activeRegion),
                                     OrUndefined(activeItemType)))

\* C9: in the revisions that draw under filters, when the dataset is
\* loaded and no record qualifies, no Question is held, error is unset and
\* the filter message with its Clear filters button is shown.
C9_NoCandidatesNotError ==
  (alive /\ rev \in {"p0", "ts"} /\ ~loading /\ data # 0 /\ Len(QualifyingNow) = 0) =>
    /\ question = NoQuestion
    /\ error = Null
    /\ showFilterMessage

BothLoaded ==
  /\ dataRes = "ok" /\ geoRes = "ok"
  /\ dataJson = "parsed" /\ geoJson = "parsed"

EitherFailed ==
  \/ dataRes \in {"bad", "rejected"} \/ geoRes \in {"bad", "rejected"}
  \/ dataJson = "unparsable" \/ geoJson = "unparsable"

\* C10: a Question is held, or Loading is left for anything but Error, only
\* once both files are fetched and parsed, in whichever order the fetches
\* and the reads complete; and a load attempt in which a fetch failed or a
\* body did not parse ends in Error with no Question held.
C10_LoadSynchronization ==
  /\ question # NoQuestion => BothLoaded
  /\ (~loading /\ ~Truthy(error)) => BothLoaded
  /\ (alive /\ loadPc = "done" /\ EitherFailed) =>
       /\ Truthy(error)
       /\ question = NoQuestion
       /\ ~loading

\* C10's case: both files are there and the first Question is shown.
C10_Witness ==
  /\ rev = "p0"
  /\ alive /\ loadPc = "done" /\ BothLoaded
  /\ ~loading /\ error = Null
  /\ question # NoQuestion /\ layer # NoLayer

\* The session state the load writes.
loadedState == <<data, worldGeo, question, error, loading>>

\* C11: once the component is torn down, no step of a load still in
\* flight (a fetch or a body read that settles, well or badly) changes
\* data, worldGeo, question, error or loading.
C11_TeardownGuard == [][~alive => UNCHANGED loadedState]_vars

\* The retry the Error screen offers: Try Again (nextQuestion in "js", "p1"
\* and "nr", loadInitialData in "ts") or the reload of the page ("p0"),
\* followed through to a load attempt that has started.
RetryStartsLoad ==
  (nextQuestion \/ loadInitialData \/ Reload) /\ loadPc' = "fetch" /\ loading'

\* C12: a load attempt that failed leaves the session in Error, and from
\* there the retry of the Error screen starts a new load attempt.
C12_RecoverableError ==
  (alive /\ loadPc = "done" /\ EitherFailed) =>
    /\ Truthy(error) /\ ~loading
    /\ ENABLED RetryStartsLoad

\* The structural contract as the specification states it: an array of
\* records with a non-empty country, a region that may be empty, and a
\* non-empty items array of {non-empty type, non-empty images array}.
SchemaAsStated(dataset) ==
  \A r \in 1..Len(dataset) :
    /\ Len(Chars[dataset[r].country]) >= 1
    /\ Len(dataset[r].items) >= 1
    /\ \A i \in 1..Len(dataset[r].items) :
         /\ Len(Chars[dataset[r].items[i].type]) >= 1
         /\ Len(dataset[r].items[i].images) >= 1

\* The load of the "ts" revision has ended after validateDataset ran on the
\* file served (both responses ok, the dataset body parsed).
ValidatedNow ==
  /\ rev = "ts" /\ loadPc = "done"
  /\ dataRes = "ok" /\ geoRes = "ok" /\ dataJson = "parsed"

\* C13: validateDataset accepts the file served (the load goes on to read
\* the map) exactly when the file meets the contract as stated, in which
\* the region may be the empty string, as the dataset compiler writes it.
C13_DatasetSchema ==
  ValidatedNow => ((geoJson # "none") <=> SchemaAsStated(SessionDatasets[served]))

\* C14: when the file served parses but does not meet the contract, the
\* load attempt ends in Error: error is set, loading is cleared, and
\* neither the dataset nor a Question is stored.
C14_SchemaFailureIsLoadFailure ==
  (/\ alive /\ loadPc = "done"
   /\ dataRes = "ok" /\ geoRes = "ok" /\ dataJson = "parsed"
   /\ geoJson # "unparsable"
   /\ ~SchemaAsStated(SessionDatasets[served])) =>
    /\ Truthy(error) /\ ~loading
    /\ data = 0 /\ question = NoQuestion

\* A step that changes the active region or the active clue type: one of
\* the two selects, or Clear filters when a filter was set (and not the
\* reload of the page, which starts the session over).
FilterChange == filterVars' # filterVars /\ ~loading'

\* C20: in part_000 every change of a filter sets score, answered and
\* streak to 0 and replaces the question by one drawn under the new
\* filters (NoQuestion when no record qualifies), answered or not.
C20_StrictFilterPolicy ==
  [][FilterChange =>
       /\ score' = 0 /\ answered' = 0 /\ streak' = 0
       /\ selected' = Null /\ isCorrect' = Null
       /\ question' \in
            pickQuestion_p0(SessionDatasets[data],
                            QuestionOptions(<<>>, OrUndefined(activeRegion'),
                                            OrUndefined(activeItemType')))]_vars

\* C20's case: the region filter was set and the question shown was drawn
\* under it, with the counts at 0.
C20_Witness ==
  /\ rev = "p0" /\ alive
  /\ activeRegion = "Asia"
  /\ question.correctCountry = "Russia"
  /\ score = 0 /\ answered = 0 /\ streak = 0

\* C20's other case: no record qualifies under the new filters.
C20_WitnessNone ==
  /\ rev = "p0" /\ alive
  /\ Truthy(activeRegion) /\ question = NoQuestion /\ filterError

(***************************************************************************)
(* The normaliser as a pure function: normalizeCountryName called on a     *)
(* name, and then on what it returned.                                     *)
(***************************************************************************)
MaxNameLen == 3

\* The characters the typed names are made of: a lower-case and an
\* upper-case letter, a space, and a digit (which the last replace drops).
NameAlphabet == {"a", "B", " ", "1"}

TypedNames == UNION {[1..n -> NameAlphabet] : n \in 0..MaxNameLen}

\* The names normalised: the typed names, the keys and the values of the
\* alias table, and the spellings of the dataset and of the map.
NormInputs ==
  TypedNames
    \cup {ALIASES[i].alias : i \in 1..Len(ALIASES)}
    \cup {ALIASES[i].canonical : i \in 1..Len(ALIASES)}
    \cup {Chars["France"], Chars["Russia"], Chars["Russian Federation"]}
    \cup {<<"U","S","A">>,
          <<"U","n","i","t","e","d"," ","S","t","a","t","e","s">>}

samplerVars == <<impl, pData, pOptions, pCall, pEntry, pCands, pRet>>

NormInit ==
  /\ nIn \in NormInputs
  /\ nCalls = 0 /\ nOnce = <<>> /\ nTwice = <<>>
  /\ SamplerIdle /\ LedgerIdle /\ ShuffleIdle /\ SessionIdle

\* normalizeCountryName(nIn) is called and returns.
NormalizeCall ==
  /\ nCalls = 0
  /\ nCalls' = 1
  /\ nOnce' = normalizeChars(nIn)
  /\ UNCHANGED <<nIn, nTwice, samplerVars, lvars, hvars, svars>>

\* normalizeCountryName is called on the string the first call returned.
NormalizeAgain ==
  /\ nCalls = 1
  /\ nCalls' = 2
  /\ nTwice' = normalizeChars(nOnce)
  /\ UNCHANGED <<nIn, nOnce, samplerVars, lvars, hvars, svars>>

NormNext == NormalizeCall \/ NormalizeAgain

SpecNorm == NormInit /\ [][NormNext]_vars

\* C15: normalising a normalised name changes nothing:
\* normalizeCountryName(normalizeCountryName(s)) = normalizeCountryName(s),
\* also for names with a digit or punctuation next to a space.
C15_NormalizationIdempotence == nCalls = 2 => nTwice = nOnce

\* C16: every key of the alias table normalises to what its value
\* normalises to; so do "Russian Federation" and "russia", and "USA" and
\* "United States".
C16_AliasEquivalence ==
  nCalls >= 1 =>
    /\ \A i \in 1..Len(ALIASES) :
         nIn = ALIASES[i].alias => nOnce = normalizeChars(ALIASES[i].canonical)
    /\ nIn = Chars["Russian Federation"] => nOnce = normalizeChars(<<"r","u","s","s","i","a">>)
    /\ nIn = <<"U","S","A">> =>
         nOnce = normalizeChars(<<"U","n","i","t","e","d"," ","S","t","a","t","e","s">>)

(***************************************************************************)
(* pickQuestion of the "nr" revision with the random source made explicit: *)
(* Math.random() returns the values of a fixed sequence in turn (and       *)
(* starts over at its end), each a multiple of 1/RandomGrid below 1.       *)
(***************************************************************************)
RandomGrid == 2
RandomLen == 4
MaxCalls == 3

RandomSeqs == [1..RandomLen -> 0..(RandomGrid - 1)]

\* Math.floor(Math.random() * n) at the k-th call of Math.random (1-based
\* index of an array of n elements).
FloorRandom(rnd, k, n) ==
  (rnd[((k - 1) % Len(rnd)) + 1] * n) \div RandomGrid + 1

\* The Fisher-Yates loop from position i down; k counts the calls of
\* Math.random.
RECURSIVE ShuffleWith(_, _, _, _)
ShuffleWith(a, i, rnd, k) ==
  IF i < 2 THEN [arr |-> a, k |-> k]
  ELSE ShuffleWith(Swap(a, i, FloorRandom(rnd, k, i)), i - 1, rnd, k + 1)

\* shuffleArray(arr) from the k-th call of Math.random on.
shuffleArrayWith(arr, rnd, k) == ShuffleWith(arr, Len(arr), rnd, k)

\* An image chosen without a look at the ledger: the first of the shuffle.
FirstFree_unledgered(imgs, type, usedForCountry) == 1

\* imgs.find((u) => !usedForCountry.has(`${it.type}|${u}`)): the position
\* of the first image of the shuffle not in the ledger, 0 when there is
\* none.
FirstFree(imgs, type, usedForCountry) ==
  LET free == {k \in 1..Len(imgs) : <<type, imgs[k]>> \notin usedForCountry}
  IN IF free = {} THEN 0 ELSE CHOOSE k \in free : \A m \in free : k <= m

\* chosenItems.map(...): the images issued, the ledger of the country
\* afterwards and the count of the calls of Math.random.
RECURSIVE IssueWith(_, _, _, _)
IssueWith(items, usedForCountry, rnd, k) ==
  IF items = <<>> THEN [images |-> <<>>, used |-> usedForCountry, k |-> k]
  ELSE LET it == Head(items)
           sh == shuffleArrayWith(it.images, rnd, k)
           imgs == sh.arr
           found == FirstFree(imgs, it.type, usedForCountry)
           choice == IF found = 0 THEN imgs[1] ELSE imgs[found]
           cleared == IF found = 0
                      THEN usedForCountry \ {<<it.type, it.images[j]>> :
                                               j \in 1..Len(it.images)}
                      ELSE usedForCountry
           rest == IssueWith(Tail(items), cleared \cup {<<it.type, choice>>},
                             rnd, sh.k)
       IN [images |-> <<QuestionImage(choice, it.type)>> \o rest.images,
           used |-> rest.used, k |-> rest.k]

\* pickQuestion(dataset, excludeCountry, usedImagesByCountry) when
\* Math.random returns rnd: the Question returned (q) and the ledger
\* afterwards (used).
pickQuestionWith(dataset, excludeCountry, used, rnd) ==
  LET candidates == Candidates_js(dataset)
      pool == PoolOf_nr(candidates, excludeCountry)
  IN IF Len(candidates) = 0 THEN [q |-> NoQuestion, used |-> used]
     ELSE LET correct == pool[FloorRandom(rnd, 1, Len(pool))]
              sh == shuffleArrayWith(validItems(correct.items), rnd, 2)
              r == IssueWith(SliceTo(sh.arr, 3), used[correct.country], rnd, sh.k)
          IN [q |-> Question(correct.country, r.images),
              used |-> [used EXCEPT ![correct.country] = r.used]]

\* The datasets the calls are made on: one country whose pole type holds
\* two images; and two countries.
LedgerDatasets ==
  << <<CountryEntry("France", "Europe",
                    ItemsOfShape(1, <<<<1, 2>>, <<3, 1>>, <<4, 1>>>>))>>,
     <<CountryEntry("France", "Europe",
                    ItemsOfShape(1, <<<<1, 2>>, <<3, 1>>, <<4, 1>>>>)),
       CountryEntry("Russia", "Asia", ItemsOfShape(2, ThreeTypes))>> >>

LedgerInit ==
  /\ lData \in 1..Len(LedgerDatasets)
  /\ lUsed = EmptyLedger /\ lIssued = <<>> /\ lLast = NoCall
  /\ SamplerIdle /\ NormIdle /\ ShuffleIdle /\ SessionIdle

\* pickQuestion(data, excludeCountry, usedImagesByCountry) is called and
\* returns, the random source returning rnd.
PickWithLedger(excludeCountry, rnd) ==
  /\ Len(lIssued) < MaxCalls
  /\ LET r == pickQuestionWith(LedgerDatasets[lData], excludeCountry, lUsed, rnd)
     IN /\ lIssued' = Append(lIssued, r.q)
        /\ lUsed' = r.used
  /\ lLast' = [excludeCountry |-> excludeCountry, rnd |-> rnd]
  /\ UNCHANGED <<lData, samplerVars, nvars, hvars, svars>>

LedgerNext ==
  \E excludeCountry \in {Null, "France", "Russia"}, rnd \in RandomSeqs :
    PickWithLedger(excludeCountry, rnd)

SpecLedger == LedgerInit /\ [][LedgerNext]_vars

\* The images of type t issued for country c so far, in order.
RECURSIVE UrlsIssued(_, _, _)
UrlsIssued(qs, c, t) ==
  IF qs = <<>> THEN <<>>
  ELSE LET OfType(im) == im.type = t
           ims == IF Head(qs).correctCountry = c
                  THEN SelectSeq(Head(qs).images, OfType) ELSE <<>>
       IN [i \in 1..Len(ims) |-> ims[i].url] \o UrlsIssued(Tail(qs), c, t)

\* The countries and their items in the dataset of the calls.
LedgerItems ==
  {<<LedgerDatasets[lData][r].country, LedgerDatasets[lData][r].items[i]>> :
     r \in 1..Len(LedgerDatasets[lData]), i \in 1..3}

\* C17: for every country and every type of it with n images, the draws
\* of the type fall into rounds of n that start at a cleared ledger; the
\* draws of one round are distinct images, so an image is issued again
\* only after all n were issued; and the ledger holds the images of the
\* round in progress.
C17_NoReissueBeforeExhaustion ==
  lData # 0 =>
    \A ci \in LedgerItems :
      LET c == ci[1]
          t == ci[2].type
          n == Len(ci[2].images)
          draws == UrlsIssued(lIssued, c, t)
          m == Len(draws)
      IN /\ \A i \in 1..m : \A j \in (i + 1)..m :
              ((i - 1) \div n = (j - 1) \div n) => draws[i] # draws[j]
         /\ {k[2] : k \in {u \in lUsed[c] : u[1] = t}}
              = {draws[i] : i \in {j \in 1..m : (j - 1) \div n = (m - 1) \div n}}

\* C17's case: both images of France's pole type were issued, the ledger
\* of the type was cleared and one of them was issued again.
C17_Witness ==
  /\ lData = 1
  /\ Len(UrlsIssued(lIssued, "France", "pole")) = 3
  /\ UrlsIssued(lIssued, "France", "pole")[1] # UrlsIssued(lIssued, "France", "pole")[2]
  /\ {k \in lUsed["France"] : k[1] = "pole"}
       = {<<"pole", UrlsIssued(lIssued, "France", "pole")[3]>>}

\* C18: for every country and every type of it with two images or more,
\* two draws of the type in a row are never the same image, the draw after
\* the clearing of the ledger included.
C18_NoImmediateRepetition ==
  lData # 0 =>
    \A ci \in LedgerItems :
      LET draws == UrlsIssued(lIssued, ci[1], ci[2].type)
      IN Len(ci[2].images) >= 2 =>
           \A i \in 1..(Len(draws) - 1) : draws[i] # draws[i + 1]

\* C19: when the random source returns the same sequence, a call of
\* pickQuestion with the arguments of the call before it (the dataset,
\* excludeCountry and the ledger) returns the Question that call returned.
C19_Determinism ==
  [][(Len(lIssued) >= 1 /\ Len(lIssued') = Len(lIssued) + 1 /\ lLast' = lLast) =>
       lIssued'[Len(lIssued')] = lIssued[Len(lIssued)]]_vars

(***************************************************************************)
(* Further properties of the session (Spec).                               *)
(***************************************************************************)
\* The records of the dataset loaded that the sampler of the revision
\* mounted takes as candidates under the active filters.
CandidatesNow ==
  IF rev \in {"p0", "ts"} THEN QualifyingNow
  ELSE Candidates_js(SessionDatasets[data])

metrics == <<score, answered, streak>>

\* A step that is neither a step of the load, nor a change of a filter,
\* nor an accepted click, nor the teardown.
QuietStep ==
  /\ loadVars' = loadVars /\ loading' = loading /\ data' = data
  /\ filterVars' = filterVars /\ alive' = alive
  /\ answered' = answered

\* C21: a next-question request made with the dataset loaded and a
\* candidate at hand leaves a Question held, selected and isCorrect null
\* and (where clues are revealed one by one) one clue revealed.
C21_NextQuestionResets ==
  [][(data # 0 /\ QuietStep /\ Len(CandidatesNow) > 0 /\ nextQuestion) =>
       /\ question' # NoQuestion
       /\ selected' = Null /\ isCorrect' = Null
       /\ rev \in {"p1", "p0", "ts"} => visibleClues' = 1]_vars

\* C21's case: a question was answered with two clues revealed and the
\* next one was requested.
C21_Witness ==
  /\ rev = "p0" /\ alive
  /\ answered = 1 /\ selected = Null /\ isCorrect = Null
  /\ question # NoQuestion /\ visibleClues = 1

\* C22: score, answered and streak change only in a step that is a click
\* accepted on a held, unanswered question, or a change of a filter; so a
\* next-question request, a reveal and a click made while no Question is
\* held leave them as they are.
C22_MetricsFrame ==
  [][metrics' # metrics =>
       \/ /\ question # NoQuestion /\ ~Truthy(selected)
          /\ \E name \in MapNames : handleCountryClick(name)
       \/ FilterChange]_vars

(***************************************************************************)
(* Further properties of the samplers (SpecPick).                          *)
(***************************************************************************)
\* C23: pickQuestion returns null exactly when no record passes its
\* candidate filter, whatever the draws: the re-check of buildQuestion
\* never turns down the candidate chosen.
C23_FilterSamplerAgree ==
  pCall = "pickQuestion" => ((pRet = NoQuestion) <=> (Len(pCands) = 0))

\* C23's case: two records pass the filter under an itemType and a
\* Question comes back.
C23_Witness ==
  /\ pCall = "pickQuestion" /\ impl = "lib"
  /\ Truthy(pOptions.itemType)
  /\ Len(pCands) = 2
  /\ pRet # NoQuestion

(***************************************************************************)
(* shuffleArray as a pure function: a call on an array of up to            *)
(* MaxShuffleLen elements, equal elements included.                        *)
(***************************************************************************)
MaxShuffleLen == 4

ShuffleElems == {"a", "b", "c", "d"}

ShuffleInputs == UNION {[1..n -> ShuffleElems] : n \in 0..MaxShuffleLen}

ShuffleInit ==
  /\ hArr \in ShuffleInputs
  /\ hDone = FALSE /\ hOut = <<>>
  /\ SamplerIdle /\ NormIdle /\ LedgerIdle /\ SessionIdle

\* shuffleArray(hArr) is called and returns: the loop runs on a copy, the
\* array handed in is not written.
ShuffleCall ==
  /\ ~hDone
  /\ hDone' = TRUE
  /\ hOut' \in shuffleArray(hArr)
  /\ UNCHANGED <<hArr, samplerVars, nvars, lvars, svars>>

ShuffleNext == ShuffleCall

SpecShuffle == ShuffleInit /\ [][ShuffleNext]_vars

\* How many times x occurs in arr.
Occurrences(arr, x) == Cardinality({i \in 1..Len(arr) : arr[i] = x})

\* C24: shuffleArray returns an array of the length of its input that
\* holds each element as many times as the input does, whatever the
\* draws, and the input array stays as it was; so the elements of an
\* input without repeats are all different in the output, and its first
\* clueCount elements are clueCount different elements of the pool.
C24_ShufflePermutation ==
  /\ [](hDone =>
         /\ Len(hOut) = Len(hArr)
         /\ \A x \in ShuffleElems : Occurrences(hOut, x) = Occurrences(hArr, x)
         /\ (\A i, j \in 1..Len(hArr) : i # j => hArr[i] # hArr[j]) =>
              (\A i, j \in 1..Len(hOut) : i # j => hOut[i] # hOut[j]))
  /\ [][hArr' = hArr]_vars

\* C24's case: four different elements came back in another order.
C24_Witness ==
  /\ hDone
  /\ Len(hArr) = 4 /\ Cardinality({hArr[i] : i \in 1..4}) = 4
  /\ hOut # hArr
  /\ hOut[1] = hArr[4]

(***************************************************************************)
(* Further properties of the session (Spec).                               *)
(***************************************************************************)
\* The candidates of pickQuestion of the "nr" revision on the dataset held.
CandidatesHeld_nr == Candidates_js(SessionDatasets[data])

\* Two candidates of the dataset held have different normalized names.
TwoCountries_nr ==
  \E a, b \in 1..Len(CandidatesHeld_nr) :
    normalizeCountryName(CandidatesHeld_nr[a].country)
      # normalizeCountryName(CandidatesHeld_nr[b].country)

\* C25: in the "nr" revision a next-question request on a question of a
\* dataset with two candidates of different normalized names gives a
\* question of another country; with one candidate it gives the same
\* country again, not null.
C25_NoConsecutiveRepeat ==
  [][(rev = "nr" /\ data # 0 /\ question # NoQuestion /\ QuietStep
        /\ Len(CandidatesHeld_nr) > 0 /\ nextQuestion) =>
       /\ question' # NoQuestion
       /\ TwoCountries_nr => question'.correctCountry # question.correctCountry
       /\ Len(CandidatesHeld_nr) = 1 =>
            question'.correctCountry = question.correctCountry]_vars

\* C25's case: both countries of the first dataset have been issued, which
\* takes a next-question request after the load.
C25_Witness ==
  /\ rev = "nr" /\ data = 1 /\ question # NoQuestion
  /\ usedImagesByCountry["France"] # {}
  /\ usedImagesByCountry["Russia"] # {}

\* C26: in every state of a session, 0 <= streak <= score <= answered.
C26_MetricsOrdering == 0 <= streak /\ streak <= score /\ score <= answered

\* C26's case: a right answer then a wrong one, which resets the streak
\* below the score.
C26_Witness ==
  rev = "p0" /\ answered = 2 /\ score = 1 /\ streak = 0 /\ isCorrect = "false"

\* C27: in every state of a session, selected is null exactly when
\* isCorrect is null; when selected is not null a Question is held and
\* isCorrect is whether selected is its correctCountry; when no Question
\* is held both are null.
C27_AnswerStateConsistency ==
  /\ (selected = Null) <=> (isCorrect = Null)
  /\ selected # Null =>
       /\ question # NoQuestion
       /\ isCorrect = (IF selected = question.correctCountry
                       THEN "true" ELSE "false")
  /\ question = NoQuestion => (selected = Null /\ isCorrect = Null)

\* C27's case: two clicks were taken on one question, the later one a
\* wrong answer, and the stored judgement is that of the name stored.
C27_Witness ==
  /\ answered = 2 /\ score = 1
  /\ question # NoQuestion
  /\ selected = "Russia" /\ question.correctCountry = "France"
  /\ isCorrect = "false"

\* The revisions that keep visibleClues.
ClueRevisions == {"p1", "p0", "ts"}

\* C28: while a Question is held, 1 <= visibleClues <= the number of its
\* images; a reveal adds one when visibleClues is below that number and
\* changes nothing otherwise; and visibleClues goes down between two states
\* that hold a Question only in a step of a handler that sets the question
\* (a next-question request or a filter change).
C28_RevealedClueBound ==
  /\ []((rev \in ClueRevisions /\ question # NoQuestion) =>
          (1 <= visibleClues /\ visibleClues <= Len(question.images)))
  /\ []((rev \in ClueRevisions /\ question # NoQuestion /\ alive
           /\ visibleClues >= Len(question.images)) =>
          /\ ENABLED Reveal
          /\ ~ENABLED (Reveal /\ visibleClues' # visibleClues))
  /\ [][(rev \in ClueRevisions /\ question # NoQuestion
           /\ question' = question /\ metrics' = metrics /\ Reveal) =>
          visibleClues' = (IF visibleClues < Len(question.images)
                           THEN visibleClues + 1 ELSE visibleClues)]_vars
  /\ [][(rev \in ClueRevisions /\ question # NoQuestion
           /\ question' # NoQuestion /\ visibleClues' < visibleClues) =>
          (nextQuestion \/ FilterChange)]_vars

\* C28's case: every clue of the question held has been revealed.
C28_Witness ==
  /\ rev = "p1" /\ question # NoQuestion
  /\ Len(question.images) = 3 /\ visibleClues = 3
  /\ selected # Null

(***************************************************************************)
(* Where the images of a question come from (SpecPick; the "nr" revision   *)
(* in SpecLedger).                                                         *)
(***************************************************************************)
\* Record e has an item of exactly the type of image im whose images hold
\* the url of im.
HoldsImage(e, im) ==
  \E i \in 1..Len(e.items) :
    /\ e.items[i].type = im.type
    /\ \E k \in 1..Len(e.items[i].images) : e.items[i].images[k] = im.url

\* The url of image im is held by some item of record e.
HoldsUrl(e, im) ==
  \E i \in 1..Len(e.items) :
    \E k \in 1..Len(e.items[i].images) : e.items[i].images[k] = im.url

\* Question q is made of record r of dataset alone.
MadeOf(q, dataset, r) ==
  /\ dataset[r].country = q.correctCountry
  /\ \A k \in 1..Len(q.images) :
       /\ HoldsImage(dataset[r], q.images[k])
       /\ \A o \in 1..Len(dataset) :
            o # r => ~HoldsUrl(dataset[o], q.images[k])

\* C29: the correctCountry of every Question returned by pickQuestion or
\* buildQuestion is the country of a record of the dataset (of the record
\* handed in, for buildQuestion), each image of the Question has the type
\* of an item of that record whose images hold its url, and no image is
\* one of another record.
C29_CluesBelongToAnswer ==
  /\ (pCall = "pickQuestion" /\ pRet # NoQuestion) =>
       \E r \in 1..Len(pData) : MadeOf(pRet, pData, r)
  /\ (pCall = "buildQuestion" /\ pRet # NoQuestion) =>
       MadeOf(pRet, pData, pEntry)
  /\ \A n \in 1..Len(lIssued) :
       lIssued[n] # NoQuestion =>
         \E r \in 1..Len(LedgerDatasets[lData]) :
           MadeOf(lIssued[n], LedgerDatasets[lData], r)

\* C29's case: of two records that hold images, the second was drawn, for
\* a question of two images.
C29_Witness ==
  /\ pCall = "pickQuestion" /\ pRet # NoQuestion
  /\ Len(pData) = 2
  /\ Len(validItems(pData[1].items)) > 0
  /\ pRet.correctCountry = pData[2].country
  /\ Len(pRet.images) = 2

\* C30: a click that is taken (it adds one to answered) is judged against
\* the Question held when it is made: a Question is held, the click leaves
\* it in place, and isCorrect becomes whether the name clicked is the
\* correctCountry of that Question, whatever questions were held before.
C30_JudgedAgainstCurrent ==
  [][answered' = answered + 1 =>
       /\ question # NoQuestion
       /\ question' = question
       /\ selected' \in MapNames
       /\ isCorrect' = (IF selected' = question.correctCountry
                        THEN "true" ELSE "false")]_vars

\* C30's case: in the "nr" revision both countries of the first dataset
\* have been issued, so a next-question request was made, and the answer
\* to the question now held was judged right.
C30_Witness ==
  /\ rev = "nr" /\ data = 1
  /\ usedImagesByCountry["France"] # {}
  /\ usedImagesByCountry["Russia"] # {}
  /\ question # NoQuestion
  /\ selected = question.correctCountry /\ isCorrect = "true"
====
